---- MODULE Spec2Model ----
(***************************************************************************)
(* cgrun: run a program (or seize running processes) inside a volatile     *)
(* cgroup hierarchy.  The model follows src/cgrun.go (the go-flags         *)
(* revision, lines 283-671): the main flow of initialMain, the signal      *)
(* goroutine installed by setupSignalHandler, the helper child re-executed *)
(* as __cgrun_init__, and the kernel's cgroup pseudo file system.          *)
(***************************************************************************)
EXTENDS Integers, Sequences, FiniteSets, TLC

VARIABLES
    mountSrc,           \* /proc/cgroups and /proc/mounts as read: [cgroups, mounts]
    subsysMountPoints,  \* global map subsystem -> mount path ("" = not mounted)
    params,             \* ParameterSet: subsystem -> (parameter -> value)
    optPid,             \* opts.Pid: [set |-> BOOLEAN, val |-> Int]
    optTree,            \* opts.Tree
    cmdline,            \* positional arguments as flags.ParseArgs returns them
    args,               \* args of initialMain once its parameter loop has ended
    parentFiles,        \* files of the parent cgroup directory: name -> content
    procs,              \* /proc/<pid>/stat: pid -> [ppid, comm (words of the name)]
    alive,              \* pids of live processes
    cgfs,               \* hierarchy directories: path -> [files, tasks]
    pc,                 \* position of the main goroutine
    err,                \* error value carried by the main flow ("nil" = none)
    todo,               \* subsystems still to visit by the running range loop
    cur,                \* subsystem being set up
    mandIdx,            \* index of the next mandatory parameter of cur
    ptodo,              \* caller parameters of cur still to write
    retCode,            \* value initialMain returns
    exitCode,           \* exit status of the tool process as the OS reports it
    childStarted,       \* global flag read by the signal goroutine
    hpc,                \* position of the signal goroutine
    htodo,              \* subsystems still to visit by the goroutine's cleanup
    tasksFiles,         \* result of getTasksFiles (sequence of paths)
    child,              \* position of the helper child process
    cidx,               \* helper: index of the next argument to process
    waitStatus,         \* raw wait status of the child
    plan,               \* attach: the active calls of collectPids, innermost first
    pidx,               \* attach: index of the next tasks file of the innermost call
    stderrName,         \* TRUE once the hierarchy name was printed on stderr
    wlog,               \* history: parameter writes that succeeded, in order
    joined,             \* history: path -> pids successfully written to tasks
    hist,               \* history: flags recording what has happened
    clock,              \* naming: wall-clock second
    names               \* naming: pid -> name generated by that invocation

vars == <<mountSrc, subsysMountPoints, params, optPid, optTree, cmdline, args, parentFiles, procs,
          alive, cgfs, pc, err, todo, cur, mandIdx, ptodo, retCode, exitCode,
          childStarted, hpc, htodo, tasksFiles, child, cidx, waitStatus, plan,
          pidx, stderrName, wlog, joined, hist, clock, names>>

fixedInputs == <<mountSrc, subsysMountPoints, params, optPid, optTree, cmdline, args,
                 parentFiles>>
inputVars == <<fixedInputs, procs>>
namingVars == <<clock, names>>

----------------------------------------------------------------------------
(* Program constants                                                       *)

\* var mandatoryParameters (map subsystem -> ordered list of parameters)
mandatoryParameters == [cpuset |-> <<"cpus", "mems">>]

\* the generated hierarchy name (baseParent + makeHierarchyName()), one per run
hirName == "cgrun-volatile"

\* filepath.Join(mountPoint, hirName)
HirPath(mountPoint) == mountPoint \o "/" \o hirName

\* filepath.Join(mountPoint, hirName, "tasks")
TasksFile(mountPoint) == HirPath(mountPoint) \o "/tasks"

\* subsys + "." + param
ParamFile(subsys, param) == subsys \o "." \o param

----------------------------------------------------------------------------
(* Mount Resolver: initMountPointMap                                       *)
(* A text source is a sequence of lines, a line the sequence of its        *)
(* whitespace-separated fields (strings.Fields); the options field of a    *)
(* mount entry is the sequence strings.Split(f[3], ",") yields.            *)

\* first loop: every line but the header registers its first field with ""
RegisteredSubsystems(cgroupsLines) ==
    { cgroupsLines[i][1] :
        i \in { j \in 2..Len(cgroupsLines) : Len(cgroupsLines[j]) >= 1 } }

RECURSIVE ApplyOptions(_, _, _)
\* inner loop over the options of one mount entry
ApplyOptions(m, opts, path) ==
    IF opts = <<>> THEN m
    ELSE ApplyOptions(
            IF Head(opts) \in DOMAIN m THEN [m EXCEPT ![Head(opts)] = path] ELSE m,
            Tail(opts), path)

RECURSIVE ApplyMountsAnyType(_, _)
\* the second loop without the test of the file system type
ApplyMountsAnyType(m, mountLines) ==
    IF mountLines = <<>> THEN m
    ELSE LET f == Head(mountLines)
         IN  ApplyMountsAnyType(
                IF Len(f) < 4 THEN m
                ELSE ApplyOptions(m, f[4], f[2]),
                Tail(mountLines))

RECURSIVE ApplyMounts(_, _)
\* second loop over the lines of the mount table
ApplyMounts(m, mountLines) ==
    IF mountLines = <<>> THEN m
    ELSE LET f == Head(mountLines)
         IN  ApplyMounts(
                IF Len(f) < 4 THEN m
                ELSE IF f[3] # "cgroup" THEN m
                ELSE ApplyOptions(m, f[4], f[2]),
                Tail(mountLines))

initMountPointMap(cgroupsLines, mountLines) ==
    ApplyMounts([s \in RegisteredSubsystems(cgroupsLines) |-> ""], mountLines)

\* mountPoint, ok := subsysMountPoints[subsys]; !ok || mountPoint == ""
IsMounted(subsys) ==
    subsys \in DOMAIN subsysMountPoints /\ subsysMountPoints[subsys] # ""

----------------------------------------------------------------------------
(* The kernel's cgroup pseudo file system                                  *)

\* parameter files the kernel exposes in a cgroup directory of a subsystem
KernelFiles ==
    { "cpuset.cpus", "cpuset.mems", "cpuset.cpu_exclusive",
      "cpu.shares", "blkio.weight" }

NoDir == [files |-> <<>>, tasks |-> {}]

DirExists(path) == path \in DOMAIN cgfs

\* os.Mkdir(hirPath, 0750): EEXIST when the directory is already there
MkdirOk(path) == ~DirExists(path)

Mkdir(fs, path) == [p \in DOMAIN fs \cup {path} |-> IF p = path THEN NoDir ELSE fs[p]]

\* ioutil.WriteFile on a parameter file: the directory must exist and the
\* kernel must expose the file (a pseudo file system creates no new files)
WriteOk(path, file) == DirExists(path) /\ file \in KernelFiles

WriteParam(fs, path, file, val) ==
    [fs EXCEPT ![path].files =
        [f \in DOMAIN @ \cup {file} |-> IF f = file THEN val ELSE @[f]]]

\* rmdir(2) on a cgroup directory: ENOENT when absent, EBUSY while it has tasks
RmdirOk(fs, path) == path \in DOMAIN fs /\ fs[path].tasks = {}

Rmdir(fs, path) ==
    IF RmdirOk(fs, path) THEN [p \in DOMAIN fs \ {path} |-> fs[p]] ELSE fs

\* writing a pid to a tasks file: ENOENT without the directory, ESRCH for a
\* pid that is not a live process
JoinOk(path, pid) == DirExists(path) /\ pid \in alive

Join(fs, path, pid) == [fs EXCEPT ![path].tasks = @ \cup {pid}]

\* a process that exits leaves every cgroup
Leave(fs, pid) == [p \in DOMAIN fs |-> [fs[p] EXCEPT !.tasks = @ \ {pid}]]

\* a forked process starts in the cgroups of its parent
Inherit(fs, parent, pid) ==
    [p \in DOMAIN fs |->
        IF parent \in fs[p].tasks THEN [fs[p] EXCEPT !.tasks = @ \cup {pid}] ELSE fs[p]]

----------------------------------------------------------------------------
(* Inputs: the kernel's text sources, the command line, the process table  *)

CgroupsHeader == <<"#subsys_name", "hierarchy", "num_cgroups", "enabled">>

\* /proc/cgroups listing cpuset, cpu and blkio (the file ends with a newline,
\* so the last line is empty)
CgroupsAll ==
    << CgroupsHeader, <<"cpuset", "1", "1", "1">>, <<"cpu", "2", "1", "1">>,
       <<"blkio", "0", "1", "1">>, <<>> >>

\* a kernel built without blkio
CgroupsNoBlkio ==
    << CgroupsHeader, <<"cpuset", "1", "1", "1">>, <<"cpu", "2", "1", "1">>, <<>> >>

\* /proc/mounts with cpuset and cpu mounted, each on its own
MountsSeparate ==
    << <<"proc", "/proc", "proc", <<"rw", "relatime">>, "0", "0">>,
       <<"cgroup", "/cg/cpuset", "cgroup", <<"rw", "cpuset">>, "0", "0">>,
       <<"cgroup", "/cg/cpu", "cgroup", <<"rw", "cpu">>, "0", "0">>,
       <<>> >>

\* /proc/mounts with cpu and blkio mounted together on one mount point
MountsShared ==
    << <<"cgroup", "/cg/cpuset", "cgroup", <<"rw", "cpuset">>, "0", "0">>,
       <<"cgroup", "/cg/cpu,blkio", "cgroup", <<"rw", "cpu", "blkio">>, "0", "0">>,
       <<"tmpfs", "/cg", "tmpfs", <<"rw", "cpu">>, "0", "0">>,
       <<>> >>

ProcSources ==
    { <<CgroupsAll, MountsSeparate>>, <<CgroupsAll, MountsShared>> }

MountPoints == { "/cg/cpuset", "/cg/cpu", "/cg/cpu,blkio" }

AllDirs == { HirPath(mp) : mp \in MountPoints }

\* filepath.Dir of a tasks file
DirOfTasksFile(file) == CHOOSE d \in AllDirs : d \o "/tasks" = file

----------------------------------------------------------------------------
(* The parameter loop of initialMain, lines 570-594.  An argument is the   *)
(* sequence of its pieces, the characters "=" and "." being pieces of      *)
(* their own, so that strings.Index can be followed.                       *)

\* the token subsys.param=val
Tok(subsys, param, val) == <<subsys, ".", param, "=", val>>

\* strings.Index(arg, c) counted in pieces from 1; 0 stands for Go's -1
Index(arg, c) ==
    IF \E i \in 1..Len(arg) : arg[i] = c
    THEN CHOOSE i \in 1..Len(arg) : arg[i] = c /\ \A j \in 1..(i - 1) : arg[j] # c
    ELSE 0

RECURSIVE Text(_)
\* the string an argument is
Text(arg) == IF arg = <<>> THEN "" ELSE Head(arg) \o Text(Tail(arg))

TextAll(as) == [i \in 1..Len(as) |-> Text(as[i])]

\* lines 588-592: params[subsys][name] = value, making the inner map if needed
PutParam(ps, subsys, name, value) ==
    IF subsys \in DOMAIN ps
    THEN [ps EXCEPT ![subsys] =
            [n \in DOMAIN @ \cup {name} |-> IF n = name THEN value ELSE @[n]]]
    ELSE [s \in DOMAIN ps \cup {subsys} |->
            IF s = subsys THEN [n \in {name} |-> value] ELSE ps[s]]

RECURSIVE parseLoop(_, _, _)
\* lines 570-594 from index i on: args is resliced only where an argument
\* without "=" is met; when the range runs off the end args is left whole
parseLoop(as, i, ps) ==
    IF i > Len(as) THEN [err |-> "nil", params |-> ps, args |-> TextAll(as)]
    ELSE LET arg == as[i]
             sep == Index(arg, "=")
         IN  IF sep = 0
             THEN [err |-> "nil", params |-> ps,
                   args |-> TextAll(SubSeq(as, IF Text(arg) = "--" THEN i + 1 ELSE i,
                                           Len(as)))]
             ELSE LET param == SubSeq(arg, 1, sep - 1)
                      value == SubSeq(arg, sep + 1, Len(arg))
                      dot == Index(param, ".")
                  IN  IF dot = 0
                      THEN [err |-> "incorrect parameter name", params |-> ps,
                            args |-> TextAll(as)]
                      ELSE parseLoop(as, i + 1,
                               PutParam(ps, Text(SubSeq(param, 1, dot - 1)),
                                        Text(SubSeq(param, dot + 1, Len(param))),
                                        Text(value)))

\* params := make(map...) and the loop over args
parseParams(as) == parseLoop(as, 1, <<>>)

\* the parameter tokens of the command lines
ParamTokenLists ==
    { <<>>,
      << Tok("cpu", "shares", "1") >>,
      << Tok("cpuset", "cpus", "0-2"), Tok("cpu", "shares", "1") >>,
      << Tok("cpuset", "cpus", "0-2"), Tok("cpuset", "cpu_exclusive", "1") >>,
      << Tok("cpu", "shares", "1"), Tok("blkio", "weight", "16") >>,
      << Tok("cpu", "bogus", "1"), Tok("blkio", "weight", "16") >> }

\* what follows the parameter tokens: nothing, or a target and its argument
TargetLists == { <<>>, << <<"prog">>, <<"arg1">> >> }

\* the ParameterSets the parameter tokens of ParamTokenLists make
ParameterSets ==
    { <<>>,
      [cpu |-> [shares |-> "1"]],
      [cpuset |-> [cpus |-> "0-2"], cpu |-> [shares |-> "1"]],
      [cpuset |-> [cpus |-> "0-2", cpu_exclusive |-> "1"]],
      [cpu |-> [shares |-> "1"], blkio |-> [weight |-> "16"]],
      [cpu |-> [bogus |-> "1"], blkio |-> [weight |-> "16"]] }

\* parent cgroup directories: the cpuset files and their contents, complete
\* or without cpuset.mems
ParentFileSets ==
    { ("cpuset.cpus" :> "0-3") @@ ("cpuset.mems" :> "0"),
      ("cpuset.cpus" :> "0-3") }

\* pid of the helper child started by cmd.Start (the target after exec)
HelperPid == 10
\* pid of a process the target forks
ForkPid == 11
\* largest pid of the model
MaxPid == 40

\* the pid of a process that is forked while seizePid collects
LatePid == 23

\* the processes of attach mode: 20 has a child 21 and a grandchild 22
ProcTree ==
    (20 :> [ppid |-> 1, comm |-> <<"(work)">>]) @@
    (21 :> [ppid |-> 20, comm |-> <<"(kid)">>]) @@
    (22 :> [ppid |-> 21, comm |-> <<"(grandkid)">>])

\* the child of 20 has a name of two words, 30 is an unrelated process, and
\* 20 may fork 23 later
ProcSpace ==
    (20 :> [ppid |-> 1, comm |-> <<"(work)">>]) @@
    (21 :> [ppid |-> 20, comm |-> <<"(tmux:", "server)">>]) @@
    (30 :> [ppid |-> 1, comm |-> <<"(other)">>]) @@
    (LatePid :> [ppid |-> 20, comm |-> <<"(late)">>])

NoPid == [set |-> FALSE, val |-> 0]

\* the options of a command line: launch, attach, attach to a stale pid
Invocations ==
    { [optPid |-> NoPid, optTree |-> FALSE, procs |-> ProcTree] }
    \cup
    { [optPid |-> [set |-> TRUE, val |-> v], optTree |-> FALSE, procs |-> ProcTree] :
        v \in {0, 20, MaxPid} }
    \cup
    { [optPid |-> [set |-> TRUE, val |-> 20], optTree |-> TRUE, procs |-> pt] :
        pt \in {ProcTree, ProcSpace} }

\* the positional arguments that go with the options: parameter tokens, then
\* in launch mode possibly a target; attach mode takes no target
CommandLines(inv) ==
    { pt \o t : pt \in ParamTokenLists,
                t \in IF inv.optPid.set THEN { <<>> } ELSE TargetLists }

NoHist ==
    [ setupOk |-> FALSE,      \* setupHierarchy returned nil
      sigWindow |-> FALSE,    \* a signal came after setup and before any target
      launched |-> FALSE,     \* cmd.Start was executed
      attached |-> FALSE,     \* seizePid was entered
      targetRan |-> FALSE,    \* syscall.Exec replaced the helper by the target
      collected |-> FALSE,    \* collectPids returned nil
      forked |-> FALSE,       \* the target forked a process
      teardown |-> FALSE,     \* the deferred cleanupHierarchy of initialMain ran
      handled |-> FALSE,      \* the goroutine called handler()
      helperFailed |-> FALSE, \* helperMain returned after a failure
      created |-> {},         \* paths the os.Mkdir of setupHierarchy created
      exits |-> 0 ]           \* processes that exited while collectPids ran

\* the state of one invocation before initialMain has done anything
InitControl ==
    /\ alive = DOMAIN procs \ {LatePid}
    /\ pc = "start"
    /\ err = "nil"
    /\ todo = {}
    /\ cur = ""
    /\ mandIdx = 1
    /\ ptodo = {}
    /\ retCode = 0
    /\ exitCode = -1
    /\ childStarted = FALSE
    /\ hpc = "idle"
    /\ htodo = {}
    /\ tasksFiles = <<>>
    /\ child = "none"
    /\ cidx = 1
    /\ waitStatus = -1
    /\ plan = <<>>
    /\ pidx = 1
    /\ stderrName = FALSE
    /\ wlog = <<>>
    /\ joined = {}
    /\ hist = NoHist

\* wall-clock second at which the model starts
Epoch == 1700000000

Init ==
    /\ \E src \in ProcSources :
        /\ mountSrc = [cgroups |-> src[1], mounts |-> src[2]]
        /\ subsysMountPoints = initMountPointMap(src[1], src[2])
    /\ \E inv \in Invocations :
        /\ optPid = inv.optPid
        /\ optTree = inv.optTree
        /\ cmdline \in CommandLines(inv)
        /\ procs = inv.procs
    /\ parseParams(cmdline).err = "nil"
    /\ params = parseParams(cmdline).params
    /\ args = parseParams(cmdline).args
    /\ parentFiles \in ParentFileSets
    /\ InitControl
    /\ cgfs = <<>>
    /\ clock = Epoch
    /\ names = <<>>

----------------------------------------------------------------------------
(* Hierarchy Lifecycle Manager: setupHierarchy and cleanupHierarchy        *)

\* one iteration of the loop of cleanupHierarchy
CleanupOne(fs, subsys) ==
    IF ~IsMounted(subsys) THEN fs
    ELSE Rmdir(fs, HirPath(subsysMountPoints[subsys]))

RECURSIVE cleanupHierarchyAbort(_, _)
RECURSIVE cleanupHierarchy(_, _)

\* cleanupHierarchy returning at the first os.Remove that fails on a directory
\* that exists
cleanupHierarchyAbort(fs, order) ==
    IF order = <<>> THEN fs
    ELSE IF /\ IsMounted(Head(order))
            /\ HirPath(subsysMountPoints[Head(order)]) \in DOMAIN fs
            /\ ~RmdirOk(fs, HirPath(subsysMountPoints[Head(order)]))
    THEN fs
    ELSE cleanupHierarchyAbort(CleanupOne(fs, Head(order)), Tail(order))

\* cleanupHierarchy as a whole, the range loop visiting params in the given
\* order: every error of os.Remove is at most printed and the loop goes on
cleanupHierarchy(fs, order) ==
    IF order = <<>> THEN fs
    ELSE cleanupHierarchy(CleanupOne(fs, Head(order)), Tail(order))

\* setupHierarchy, lines 372-379: install the handler, register the rollback
SetupInstall ==
    /\ pc = "start"
    /\ hpc' = "waiting"
    /\ todo' = DOMAIN params
    /\ pc' = "setup_loop"
    /\ UNCHANGED <<inputVars, namingVars, parentFiles, alive, cgfs, err, cur, mandIdx,
                   ptodo, retCode, exitCode, childStarted, htodo, tasksFiles, child,
                   cidx, waitStatus, plan, pidx, stderrName, wlog, joined, hist>>

\* setupHierarchy without its deferred rollback
SetupFailNoRollback(e) ==
    /\ err' = e
    /\ todo' = {}
    /\ pc' = "rollback"

\* the error return of setupHierarchy: the deferred rollback starts
SetupFail(e) ==
    /\ err' = e
    /\ todo' = DOMAIN params
    /\ pc' = "rollback"

mainLocal == <<cur, mandIdx, ptodo>>
mainRest == <<inputVars, namingVars, parentFiles, alive, retCode, exitCode, childStarted,
              hpc, htodo, tasksFiles, child, cidx, waitStatus, plan, pidx, stderrName,
              joined>>

\* lines 381-390: next subsystem of the range loop, mount check, Mkdir
SetupLoop ==
    /\ pc = "setup_loop"
    /\ IF todo = {}
       THEN /\ pc' = "dispatch"
            /\ hist' = [hist EXCEPT !.setupOk = TRUE]
            /\ UNCHANGED <<cgfs, err, todo, mainLocal, wlog>>
       ELSE \E subsys \in todo :
            IF ~IsMounted(subsys)
            THEN /\ SetupFail("not mounted")
                 /\ UNCHANGED <<cgfs, mainLocal, wlog, hist>>
            ELSE LET hirPath == HirPath(subsysMountPoints[subsys])
                 IN  IF ~MkdirOk(hirPath)
                     THEN /\ SetupFail("mkdir")
                          /\ UNCHANGED <<cgfs, mainLocal, wlog, hist>>
                     ELSE /\ cgfs' = Mkdir(cgfs, hirPath)
                          /\ hist' = [hist EXCEPT !.created = @ \cup {hirPath}]
                          /\ cur' = subsys
                          /\ mandIdx' = 1
                          /\ pc' = "setup_mand"
                          /\ UNCHANGED <<err, todo, ptodo, wlog>>
    /\ UNCHANGED mainRest

\* a table that lists only the first mandatory parameter
MandatoryOfFirstOnly(subsys) ==
    IF subsys \in DOMAIN mandatoryParameters
    THEN SubSeq(mandatoryParameters[subsys], 1, 1) ELSE <<>>

\* the mandatory parameters of a subsystem, in the order of the table
MandatoryOf(subsys) ==
    IF subsys \in DOMAIN mandatoryParameters THEN mandatoryParameters[subsys] ELSE <<>>

\* lines 391-405: copy one mandatory parameter from the parent directory
SetupMand ==
    /\ pc = "setup_mand"
    /\ LET mandParams == MandatoryOf(cur)
           hirPath == HirPath(subsysMountPoints[cur])
       IN  IF mandIdx > Len(mandParams)
           THEN /\ ptodo' = DOMAIN params[cur]
                /\ pc' = "setup_params"
                /\ UNCHANGED <<cgfs, err, todo, cur, mandIdx, wlog>>
           ELSE LET file == ParamFile(cur, mandParams[mandIdx])
                IN  IF file \notin DOMAIN parentFiles
                    THEN /\ SetupFail("read")
                         /\ UNCHANGED <<cgfs, mainLocal, wlog>>
                    ELSE IF ~WriteOk(hirPath, file)
                    THEN /\ SetupFail("write")
                         /\ UNCHANGED <<cgfs, mainLocal, wlog>>
                    ELSE /\ cgfs' = WriteParam(cgfs, hirPath, file, parentFiles[file])
                         /\ wlog' = Append(wlog, [subsys |-> cur, path |-> hirPath,
                                                  file |-> file, val |-> parentFiles[file],
                                                  by |-> "mandatory"])
                         /\ mandIdx' = mandIdx + 1
                         /\ UNCHANGED <<err, todo, cur, ptodo, pc>>
    /\ UNCHANGED <<mainRest, hist>>

\* lines 407-412: write one caller-supplied parameter of the subsystem
SetupParams ==
    /\ pc = "setup_params"
    /\ LET hirPath == HirPath(subsysMountPoints[cur])
       IN  IF ptodo = {}
           THEN /\ todo' = todo \ {cur}
                /\ pc' = "setup_loop"
                /\ UNCHANGED <<cgfs, err, mainLocal, wlog>>
           ELSE \E param \in ptodo :
                LET file == ParamFile(cur, param)
                IN  IF ~WriteOk(hirPath, file)
                    THEN /\ SetupFail("write")
                         /\ UNCHANGED <<cgfs, mainLocal, wlog>>
                    ELSE /\ cgfs' = WriteParam(cgfs, hirPath, file, params[cur][param])
                         /\ wlog' = Append(wlog, [subsys |-> cur, path |-> hirPath,
                                                  file |-> file, val |-> params[cur][param],
                                                  by |-> "caller"])
                         /\ ptodo' = ptodo \ {param}
                         /\ UNCHANGED <<err, todo, cur, mandIdx, pc>>
    /\ UNCHANGED <<mainRest, hist>>

\* lines 375-379 and 602-605: the deferred rollback, then initialMain returns 1
\* (its own defer is not registered yet) and main calls os.Exit
Rollback ==
    /\ pc = "rollback"
    /\ IF todo = {}
       THEN /\ retCode' = 1
            /\ exitCode' = 1
            /\ pc' = "exited"
            /\ UNCHANGED <<cgfs, todo>>
       ELSE /\ \E subsys \in todo :
                /\ cgfs' = CleanupOne(cgfs, subsys)
                /\ todo' = todo \ {subsys}
            /\ UNCHANGED <<retCode, exitCode, pc>>
    /\ UNCHANGED <<inputVars, namingVars, parentFiles, alive, err, mainLocal, childStarted,
                   hpc, htodo, tasksFiles, child, cidx, waitStatus, plan, pidx,
                   stderrName, wlog, joined, hist>>

\* os.Exit(code): the status the operating system reports
ExitCodeOf(code) == code % 256

\* line 606 and 671: the deferred cleanupHierarchy of initialMain, then os.Exit
Teardown ==
    /\ pc = "cleanup"
    /\ IF todo = {}
       THEN /\ exitCode' = ExitCodeOf(retCode)
            /\ pc' = "exited"
            /\ hist' = [hist EXCEPT !.teardown = TRUE]
            /\ UNCHANGED <<cgfs, todo>>
       ELSE /\ \E subsys \in todo :
                /\ cgfs' = CleanupOne(cgfs, subsys)
                /\ todo' = todo \ {subsys}
            /\ UNCHANGED <<exitCode, pc, hist>>
    /\ UNCHANGED <<inputVars, namingVars, parentFiles, alive, err, mainLocal, retCode,
                   childStarted, hpc, htodo, tasksFiles, child, cidx, waitStatus, plan,
                   pidx, stderrName, wlog, joined>>

\* initialMain without its deferred cleanupHierarchy
ReturnNoDefer(code) ==
    /\ retCode' = code
    /\ todo' = {}
    /\ pc' = "cleanup"

\* a return of initialMain after line 606: the deferred teardown starts
Return(code) ==
    /\ retCode' = code
    /\ todo' = DOMAIN params
    /\ pc' = "cleanup"

----------------------------------------------------------------------------
(* Cleanup Coordinator: the goroutine of setupSignalHandler                *)

\* SIGINT, SIGHUP or SIGTERM arrives and is queued on sigCh (line 363)
Signal ==
    /\ hpc = "waiting"
    /\ pc # "exited"
    /\ hpc' = "check"
    /\ hist' = [hist EXCEPT !.sigWindow =
                    hist.setupOk /\ ~childStarted /\ child = "none" /\ ~hist.attached
                    /\ pc \in {"dispatch", "exec", "seize"}]
    /\ UNCHANGED <<inputVars, namingVars, parentFiles, alive, cgfs, pc, err, todo,
                   mainLocal, retCode, exitCode, childStarted, htodo, tasksFiles, child,
                   cidx, waitStatus, plan, pidx, stderrName, wlog, joined>>

\* line 364: if !childStarted { handler() }
HandlerCheck ==
    /\ hpc = "check"
    /\ pc # "exited"
    /\ IF ~childStarted
       THEN /\ hpc' = "cleanup"
            /\ htodo' = DOMAIN params
            /\ hist' = [hist EXCEPT !.handled = TRUE]
       ELSE hpc' = "done" /\ UNCHANGED <<htodo, hist>>
    /\ UNCHANGED <<inputVars, namingVars, parentFiles, alive, cgfs, pc, err, todo,
                   mainLocal, retCode, exitCode, childStarted, tasksFiles, child, cidx,
                   waitStatus, plan, pidx, stderrName, wlog, joined>>

\* line 373: cleanupHierarchy run by the goroutine, one subsystem per step
HandlerCleanup ==
    /\ hpc = "cleanup"
    /\ pc # "exited"
    /\ IF htodo = {}
       THEN hpc' = "done" /\ UNCHANGED <<cgfs, htodo>>
       ELSE /\ \E subsys \in htodo :
                /\ cgfs' = CleanupOne(cgfs, subsys)
                /\ htodo' = htodo \ {subsys}
            /\ UNCHANGED hpc
    /\ UNCHANGED <<inputVars, namingVars, parentFiles, alive, pc, err, todo, mainLocal,
                   retCode, exitCode, childStarted, tasksFiles, child, cidx, waitStatus,
                   plan, pidx, stderrName, wlog, joined, hist>>

----------------------------------------------------------------------------
(* initialMain after setupHierarchy, lines 606-629                         *)

Dispatch ==
    /\ pc = "dispatch"
    /\ IF optPid.set
       THEN IF optPid.val <= 0
            THEN Return(1)
            ELSE pc' = "seize" /\ UNCHANGED <<retCode, todo>>
       ELSE IF Len(args) = 0
            THEN Return(1)
            ELSE pc' = "exec" /\ UNCHANGED <<retCode, todo>>
    /\ UNCHANGED <<inputVars, namingVars, parentFiles, alive, cgfs, err, mainLocal,
                   exitCode, childStarted, hpc, htodo, tasksFiles, child, cidx,
                   waitStatus, plan, pidx, stderrName, wlog, joined, hist>>

----------------------------------------------------------------------------
(* Launch Mode: execProgram and the helper child                           *)

\* the orders in which a range loop may visit the keys of a map
Orders(S) ==
    { f \in [1..Cardinality(S) -> S] : \A x \in S : \E i \in DOMAIN f : f[i] = x }

\* getTasksFiles, the subsystems visited in the given order
getTasksFiles(order) ==
    [i \in DOMAIN order |-> TasksFile(subsysMountPoints[order[i]])]

\* syscall.WaitStatus: Exited() is w&0x7F == 0
Exited(w) == w % 128 = 0

\* syscall.WaitStatus.ExitStatus(): -1 unless Exited(), else (w>>8)&0xFF
ExitStatus(w) == IF ~Exited(w) THEN -1 ELSE (w \div 256) % 256

\* execProgram reporting every failure of the child as 1
WaitResultGeneric(w) == IF w = 0 THEN 0 ELSE 1

\* lines 472-480: cmd.Wait returns nil for status 0, an *exec.ExitError otherwise
WaitResult(w) == IF w = 0 THEN 0 ELSE ExitStatus(w)

\* wait status of a process that called exit(n) / that signal sig terminated
StatusOfExit(n) == n * 256
StatusOfSignal(sig) == sig

ExitCodes == {0, 1, 7, 255}
Signals == {2, 9, 15}

\* lines 447-466: getTasksFiles, os.Readlink, exec.Command, cmd.Start
Exec ==
    /\ pc = "exec"
    /\ IF \E subsys \in DOMAIN params : ~IsMounted(subsys)
       THEN /\ Return(1)
            /\ UNCHANGED <<tasksFiles, child, alive, hist>>
       ELSE \E order \in Orders(DOMAIN params), started \in BOOLEAN :
            IF started
            THEN /\ tasksFiles' = getTasksFiles(order)
                 /\ child' = "write"
                 /\ alive' = alive \cup {HelperPid}
                 /\ hist' = [hist EXCEPT !.launched = TRUE]
                 /\ pc' = "started"
                 /\ UNCHANGED <<retCode, todo>>
            ELSE /\ Return(1)
                 /\ UNCHANGED <<tasksFiles, child, alive, hist>>
    /\ UNCHANGED <<inputVars, namingVars, parentFiles, cgfs, err, mainLocal, exitCode,
                   childStarted, hpc, htodo, cidx, waitStatus, plan, pidx, stderrName,
                   wlog, joined>>

\* lines 469-470: childStarted = true; fmt.Fprintln(os.Stderr, hirName)
MarkStarted ==
    /\ pc = "started"
    /\ childStarted' = TRUE
    /\ stderrName' = TRUE
    /\ pc' = "wait"
    /\ UNCHANGED <<inputVars, namingVars, parentFiles, alive, cgfs, err, todo, mainLocal,
                   retCode, exitCode, hpc, htodo, tasksFiles, child, cidx, waitStatus,
                   plan, pidx, wlog, joined, hist>>

\* lines 472-480 and 623-628: cmd.Wait, the status becomes the return value
Wait ==
    /\ pc = "wait"
    /\ child = "exited"
    /\ Return(WaitResult(waitStatus))
    /\ UNCHANGED <<inputVars, namingVars, parentFiles, alive, cgfs, err, mainLocal,
                   exitCode, childStarted, hpc, htodo, tasksFiles, child, cidx,
                   waitStatus, plan, pidx, stderrName, wlog, joined, hist>>

\* execProgram appending the tasks files after the separator
helperArgsSeparatorFirst == <<"--">> \o tasksFiles \o args

\* os.Args[1:] of the helper: the tasks files, the separator, the target argv
helperArgs == tasksFiles \o <<"--">> \o args

\* the child process ends with the given wait status and leaves its cgroups
ChildEnds(status) ==
    /\ child' = "exited"
    /\ waitStatus' = status
    /\ alive' = alive \ {HelperPid}
    /\ cgfs' = Leave(cgfs, HelperPid)

childRest == <<inputVars, namingVars, parentFiles, pc, err, todo, mainLocal, retCode,
               exitCode, childStarted, hpc, htodo, tasksFiles, plan, pidx, stderrName,
               wlog>>

\* helperMain going on to the next argument after a failed write
HelperWriteGoOn ==
    /\ child = "write"
    /\ LET arg == helperArgs[cidx]
       IN  IF arg = "--"
           THEN /\ child' = "lookpath"
                /\ UNCHANGED <<cgfs, alive, waitStatus, cidx, joined, hist>>
           ELSE IF JoinOk(DirOfTasksFile(arg), HelperPid)
           THEN /\ cgfs' = Join(cgfs, DirOfTasksFile(arg), HelperPid)
                /\ joined' = joined \cup {<<arg, HelperPid>>}
                /\ cidx' = cidx + 1
                /\ UNCHANGED <<child, alive, waitStatus, hist>>
           ELSE /\ cidx' = cidx + 1
                /\ hist' = [hist EXCEPT !.helperFailed = TRUE]
                /\ UNCHANGED <<cgfs, child, alive, waitStatus, joined>>
    /\ UNCHANGED childRest

\* helperMain, lines 636-645: one argument of the loop; after a failed write
\* the helper is on its way out (message, return, os.Exit(1) in main)
HelperWrite ==
    /\ child = "write"
    /\ LET arg == helperArgs[cidx]
       IN  IF arg = "--"
           THEN /\ child' = "lookpath"
                /\ UNCHANGED <<cgfs, alive, waitStatus, cidx, joined, hist>>
           ELSE IF JoinOk(DirOfTasksFile(arg), HelperPid)
           THEN /\ cgfs' = Join(cgfs, DirOfTasksFile(arg), HelperPid)
                /\ joined' = joined \cup {<<arg, HelperPid>>}
                /\ cidx' = cidx + 1
                /\ UNCHANGED <<child, alive, waitStatus, hist>>
           ELSE /\ child' = "failed"
                /\ hist' = [hist EXCEPT !.helperFailed = TRUE]
                /\ UNCHANGED <<cgfs, alive, waitStatus, cidx, joined>>
    /\ UNCHANGED childRest

\* helperMain, lines 647-655: exec.LookPath and syscall.Exec; after a failure
\* the helper is on its way out (message, return, os.Exit(1) in main)
HelperExec ==
    /\ child = "lookpath"
    /\ \E outcome \in {"exec", "not found", "exec failed"} :
        IF outcome = "exec"
        THEN /\ child' = "target"
             /\ hist' = [hist EXCEPT !.targetRan = TRUE]
             /\ UNCHANGED <<cgfs, alive, waitStatus>>
        ELSE /\ child' = "failed"
             /\ hist' = [hist EXCEPT !.helperFailed = TRUE]
             /\ UNCHANGED <<cgfs, alive, waitStatus>>
    /\ UNCHANGED <<childRest, cidx, joined>>

\* lines 642-643, 650-651, 654-656 and 669: the helper that failed has printed
\* its message, helperMain has returned and main calls os.Exit(1)
HelperExit ==
    /\ child = "failed"
    /\ ChildEnds(StatusOfExit(1))
    /\ UNCHANGED <<childRest, cidx, joined, hist>>

\* the target program calls exit(n)
TargetExit ==
    /\ child = "target"
    /\ \E n \in ExitCodes : ChildEnds(StatusOfExit(n))
    /\ UNCHANGED <<childRest, cidx, joined, hist>>

\* a signal terminates the child (helper, also on its way out, or target)
ChildKilled ==
    /\ child \in {"write", "lookpath", "failed", "target"}
    /\ \E sig \in Signals : ChildEnds(StatusOfSignal(sig))
    /\ UNCHANGED <<childRest, cidx, joined, hist>>

\* the target forks a process, which starts in the target's cgroups
TargetFork ==
    /\ child = "target"
    /\ ~hist.forked
    /\ alive' = alive \cup {ForkPid}
    /\ cgfs' = Inherit(cgfs, HelperPid, ForkPid)
    /\ hist' = [hist EXCEPT !.forked = TRUE]
    /\ UNCHANGED <<childRest, child, waitStatus, cidx, joined>>

\* member tasks of the hierarchy directories
Members(fs) == UNION { fs[p].tasks : p \in DOMAIN fs }

\* processes that may exit while collectPids runs
MaxCollectExits == 1

\* the processes whose exit the tool can observe: while collectPids runs,
\* the target, and with the tree option every process /proc lists; later the
\* attach target, a process that was joined, or the one the target forked
ExitCandidates ==
    IF pc = "collect"
    THEN IF hist.exits < MaxCollectExits
         THEN alive \cap (IF optTree THEN DOMAIN procs ELSE {optPid.val})
         ELSE {}
    ELSE IF pc \in {"poll", "wait", "cleanup"}
    THEN (alive \ {HelperPid}) \cap (Members(cgfs) \cup {optPid.val, ForkPid})
    ELSE {}

\* pid of the process that adopts orphans (init)
ReaperPid == 1

\* the kernel reparents the living children of a process that exits: the
\* parent field of their stat becomes the pid of the reaper
Reparent(ps, pid) ==
    [q \in DOMAIN ps |->
        IF q \in alive /\ ps[q].ppid = pid THEN [ps[q] EXCEPT !.ppid = ReaperPid]
        ELSE ps[q]]

\* a process exits: it leaves its cgroups and its children are reparented
ProcExit ==
    /\ \E pid \in ExitCandidates :
        /\ alive' = alive \ {pid}
        /\ cgfs' = Leave(cgfs, pid)
        /\ procs' = Reparent(procs, pid)
    /\ hist' = IF pc = "collect" THEN [hist EXCEPT !.exits = @ + 1] ELSE hist
    /\ UNCHANGED <<fixedInputs, namingVars, pc, err, todo, mainLocal, retCode, exitCode,
                   childStarted, hpc, htodo, tasksFiles, plan, pidx, stderrName, wlog,
                   child, waitStatus, cidx, joined>>

\* a process of the tree forks while collectPids runs; the new process
\* starts in the cgroups of its parent
AttachFork ==
    /\ pc = "collect"
    /\ optTree
    /\ ~hist.forked
    /\ LatePid \in DOMAIN procs
    /\ procs[LatePid].ppid \in alive
    /\ alive' = alive \cup {LatePid}
    /\ cgfs' = Inherit(cgfs, procs[LatePid].ppid, LatePid)
    /\ hist' = [hist EXCEPT !.forked = TRUE]
    /\ UNCHANGED <<childRest, child, waitStatus, cidx, joined>>

----------------------------------------------------------------------------
(* Attach Mode: seizePid, collectPids, waitNonChildPid                     *)

RECURSIVE SortedSeq(_)
\* the elements of a set of numbers in ascending order
SortedSeq(S) ==
    IF S = {} THEN <<>>
    ELSE LET m == CHOOSE x \in S : \A y \in S : x <= y
         IN  <<m>> \o SortedSeq(S \ {m})

\* dp.Readdirnames(-1) on /proc: the pid directories and other entries
ProcDirEnts ==
    [i \in 1..Cardinality(alive \cap DOMAIN procs) |->
        ToString(SortedSeq(alive \cap DOMAIN procs)[i])] \o <<"cpuinfo", "self">>

\* decimal texts of the pids of the model
PidTexts == { ToString(n) : n \in 0..MaxPid }

\* the pid a decimal text denotes (the kernel parses what is written to tasks)
PidOfText(text) == CHOOSE n \in 0..MaxPid : ToString(n) = text

\* isPidFile: every character is a digit
isPidFile(name) == name \in PidTexts

\* strings.Fields of /proc/<name>/stat: pid (comm) state ppid ...
StatFields(name) ==
    LET p == procs[PidOfText(name)]
    IN  <<name>> \o p.comm \o <<"S", ToString(p.ppid), "0", "0">>

\* a call of collectPids(pid, tasksFiles): at "write" in the loop of lines
\* 494-498, at "scan" before os.Open("/proc"), at "visit" in the loop over
\* dirEnts, of which ents are still to be visited
Call(pid) == [pid |-> pid, phase |-> "write", ents |-> <<>>]

RECURSIVE SkipNonPid(_)
\* lines 514-517: entries that are no pid directories are passed over
SkipNonPid(ents) ==
    IF ents = <<>> THEN <<>>
    ELSE IF isPidFile(Head(ents)) THEN ents
    ELSE SkipNonPid(Tail(ents))

\* a call of collectPids returns nil: to the call that made it, or (line 549)
\* to seizePid, which prints the name and starts polling
CollectReturn ==
    IF Tail(plan) = <<>>
    THEN /\ plan' = <<>>
         /\ pidx' = 1
         /\ stderrName' = TRUE
         /\ hist' = [hist EXCEPT !.collected = TRUE]
         /\ pc' = "poll"
         /\ UNCHANGED <<retCode, todo>>
    ELSE /\ plan' = Tail(plan)
         /\ UNCHANGED <<pidx, stderrName, hist, pc, retCode, todo>>

\* an error return of collectPids: every active call returns it (lines 496,
\* 507, 512, 520, 526), seizePid returns it and initialMain returns 1
CollectFail ==
    /\ plan' = <<>>
    /\ pidx' = 1
    /\ Return(1)
    /\ UNCHANGED <<stderrName, hist>>

\* seizePid leaving childStarted alone until the pids are written
SeizeMarkLate ==
    /\ pc = "seize"
    /\ UNCHANGED childStarted
    /\ hist' = [hist EXCEPT !.attached = TRUE]
    /\ IF \E subsys \in DOMAIN params : ~IsMounted(subsys)
       THEN /\ Return(1)
            /\ UNCHANGED <<tasksFiles, plan, pidx>>
       ELSE \E order \in Orders(DOMAIN params) :
            /\ tasksFiles' = getTasksFiles(order)
            /\ plan' = <<Call(ToString(optPid.val))>>
            /\ pidx' = 1
            /\ pc' = "collect"
            /\ UNCHANGED <<retCode, todo>>
    /\ UNCHANGED <<inputVars, namingVars, parentFiles, alive, cgfs, err, mainLocal,
                   exitCode, hpc, htodo, child, cidx, waitStatus, stderrName, wlog,
                   joined>>

\* lines 541-546: childStarted = true, getTasksFiles, collectPids is entered
Seize ==
    /\ pc = "seize"
    /\ childStarted' = TRUE
    /\ hist' = [hist EXCEPT !.attached = TRUE]
    /\ IF \E subsys \in DOMAIN params : ~IsMounted(subsys)
       THEN /\ Return(1)
            /\ UNCHANGED <<tasksFiles, plan, pidx>>
       ELSE \E order \in Orders(DOMAIN params) :
            /\ tasksFiles' = getTasksFiles(order)
            /\ plan' = <<Call(ToString(optPid.val))>>
            /\ pidx' = 1
            /\ pc' = "collect"
            /\ UNCHANGED <<retCode, todo>>
    /\ UNCHANGED <<inputVars, namingVars, parentFiles, alive, cgfs, err, mainLocal,
                   exitCode, hpc, htodo, child, cidx, waitStatus, stderrName, wlog,
                   joined>>

collectRest == <<inputVars, namingVars, parentFiles, alive, err, mainLocal, exitCode,
                 childStarted, hpc, htodo, tasksFiles, child, cidx, waitStatus, wlog>>

\* lines 493-502: the innermost call writes its pid to the next tasks file;
\* after the last one it returns nil without the tree option
CollectWrite ==
    /\ pc = "collect"
    /\ Head(plan).phase = "write"
    /\ IF pidx > Len(tasksFiles)
       THEN IF ~optTree
            THEN /\ CollectReturn
                 /\ UNCHANGED <<cgfs, joined>>
            ELSE /\ plan' = <<[Head(plan) EXCEPT !.phase = "scan"]>> \o Tail(plan)
                 /\ UNCHANGED <<cgfs, pidx, joined, retCode, todo, pc, stderrName, hist>>
       ELSE LET file == tasksFiles[pidx]
                pid == PidOfText(Head(plan).pid)
            IN  IF JoinOk(DirOfTasksFile(file), pid)
                THEN /\ cgfs' = Join(cgfs, DirOfTasksFile(file), pid)
                     /\ joined' = joined \cup {<<file, pid>>}
                     /\ pidx' = pidx + 1
                     /\ UNCHANGED <<plan, retCode, todo, pc, stderrName, hist>>
                ELSE /\ CollectFail
                     /\ UNCHANGED <<cgfs, joined>>
    /\ UNCHANGED collectRest

\* lines 505-513: os.Open("/proc") and Readdirnames list the processes of
\* this moment; either may fail
CollectScan ==
    /\ pc = "collect"
    /\ Head(plan).phase = "scan"
    /\ \E ok \in BOOLEAN :
        IF ok
        THEN /\ plan' = <<[Head(plan) EXCEPT !.phase = "visit", !.ents = ProcDirEnts]>>
                         \o Tail(plan)
             /\ UNCHANGED <<pidx, retCode, todo, pc, stderrName, hist>>
        ELSE CollectFail
    /\ UNCHANGED <<cgfs, joined, collectRest>>

\* lines 514-530: the next pid directory of dirEnts; ReadFile of its stat
\* fails when the process is gone; when f[3] is the pid of this call,
\* collectPids is called for f[0]; at the end of dirEnts the call returns nil
CollectVisit ==
    /\ pc = "collect"
    /\ Head(plan).phase = "visit"
    /\ LET ents == SkipNonPid(Head(plan).ents)
       IN  IF ents = <<>>
           THEN CollectReturn
           ELSE IF PidOfText(Head(ents)) \notin alive
           THEN CollectFail
           ELSE LET f == StatFields(Head(ents))
                    rest == <<[Head(plan) EXCEPT !.ents = Tail(ents)]>> \o Tail(plan)
                IN  /\ IF f[4] = Head(plan).pid
                       THEN plan' = <<Call(f[1])>> \o rest /\ pidx' = 1
                       ELSE plan' = rest /\ UNCHANGED pidx
                    /\ UNCHANGED <<retCode, todo, pc, stderrName, hist>>
    /\ UNCHANGED <<cgfs, joined, collectRest>>

\* waitNonChildPid, lines 534-538, and the return 0 of line 617: the loop ends
\* when kill(pid, 0) fails
Poll ==
    /\ pc = "poll"
    /\ optPid.val \notin alive
    /\ Return(0)
    /\ UNCHANGED <<inputVars, namingVars, parentFiles, alive, cgfs, err, mainLocal,
                   exitCode, childStarted, hpc, htodo, tasksFiles, child, cidx,
                   waitStatus, plan, pidx, stderrName, wlog, joined, hist>>

----------------------------------------------------------------------------
Next ==
    \/ SetupInstall
    \/ SetupLoop
    \/ SetupMand
    \/ SetupParams
    \/ Rollback
    \/ Dispatch
    \/ Exec
    \/ MarkStarted
    \/ Wait
    \/ Seize
    \/ CollectWrite
    \/ CollectScan
    \/ CollectVisit
    \/ AttachFork
    \/ Poll
    \/ Teardown
    \/ Signal
    \/ HandlerCheck
    \/ HandlerCleanup
    \/ HelperWrite
    \/ HelperExec
    \/ HelperExit
    \/ TargetExit
    \/ ChildKilled
    \/ TargetFork
    \/ ProcExit

Spec == Init /\ [][Next]_vars

----------------------------------------------------------------------------
(* Properties                                                              *)

HasUnmounted == \E subsys \in DOMAIN params : ~IsMounted(subsys)

Exits == pc = "exited"

\* C1: the hierarchy never outlives the tool: when the tool process exits, no
\* directory <mountpoint>/<name> exists, also when rmdir fails on a directory
\* that still has member tasks.
C1_NoHierarchyAtExit == Exits => DOMAIN cgfs = {}

\* C2 as stated: with an unmounted subsystem in the ParameterSet, setupHierarchy
\* returns the 'not mounted' error in every iteration order, and no directory
\* is left.
C2_AlwaysNotMountedError ==
    HasUnmounted =>
        /\ ~hist.setupOk
        /\ Exits => (err = "not mounted" /\ DOMAIN cgfs = {})

\* the mounted subsystems of the ParameterSet can be set up without a failure:
\* distinct mount points, parent files present, parameters the kernel exposes
MountedPartSound ==
    /\ \A s1, s2 \in DOMAIN params :
        (IsMounted(s1) /\ IsMounted(s2) /\ s1 # s2)
            => subsysMountPoints[s1] # subsysMountPoints[s2]
    /\ \A subsys \in DOMAIN params :
        IsMounted(subsys) =>
            /\ \A param \in DOMAIN params[subsys] : ParamFile(subsys, param) \in KernelFiles
            /\ \A i \in DOMAIN MandatoryOf(subsys) :
                ParamFile(subsys, MandatoryOf(subsys)[i]) \in DOMAIN parentFiles

\* C2 (amended): full rollback: with an unmounted subsystem in the ParameterSet,
\* setupHierarchy never succeeds, returns an error in every iteration order and
\* leaves no directory; the error is the 'not mounted' one unless a subsystem
\* visited earlier failed in Mkdir or in a parameter read or write.
C2_FullRollback ==
    HasUnmounted =>
        /\ ~hist.setupOk
        /\ Exits =>
            /\ err \in {"not mounted", "mkdir", "read", "write"}
            /\ DOMAIN cgfs = {}
            /\ (MountedPartSound /\ hpc = "waiting") => err = "not mounted"

\* C2 witness: a mounted subsystem was created and written before the unmounted
\* one was reached, and the rollback removed it.
C2_Witness ==
    /\ Exits
    /\ HasUnmounted
    /\ err = "not mounted"
    /\ wlog # <<>>
    /\ DOMAIN cgfs = {}

\* C3: a signal delivered after setupHierarchy returned nil and before any
\* target started ends the tool without launch or attach logic being executed.
C3_SignalBeforeStartStopsTool == hist.sigWindow => (~hist.launched /\ ~hist.attached)

\* C4: join before exec: while the target program runs, the pid it runs under
\* (the helper's, kept by exec) has been written to the tasks file of every
\* subsystem in params.
C4_JoinBeforeExec ==
    child = "target" =>
        \A subsys \in DOMAIN params :
            /\ IsMounted(subsys)
            /\ <<TasksFile(subsysMountPoints[subsys]), HelperPid>> \in joined

\* C4 witness: the target runs in a hierarchy that spans two subsystems.
C4_Witness ==
    /\ child = "target"
    /\ Cardinality(DOMAIN params) = 2
    /\ Cardinality(DOMAIN cgfs) = 2

\* C5: exit status pass-through: when the target exits normally with status n,
\* the tool exits with n, after the deferred teardown has run; the conversion
\* from wait status to exit code returns n for every n in 0..255.
C5_ExitStatusPassThrough ==
    /\ (Exits /\ hist.targetRan /\ Exited(waitStatus)) =>
        /\ exitCode = waitStatus \div 256
        /\ hist.teardown
    /\ (Exits /\ hist.targetRan) =>
        \A n \in 0..255 : ExitCodeOf(WaitResult(StatusOfExit(n))) = n

\* C5 witness: a target that exited with status 7.
C5_Witness ==
    /\ Exits
    /\ hist.targetRan
    /\ waitStatus = StatusOfExit(7)
    /\ exitCode = 7

\* C6: a child terminated by signal s makes the tool exit with 128 + s.
C6_SignalExitStatus ==
    (Exits /\ hist.launched /\ waitStatus >= 0 /\ ~Exited(waitStatus)) =>
        exitCode = 128 + waitStatus

RECURSIVE Descendants(_)
\* the processes of the table seizePid starts with whose parent chain leads
\* into the set S (S included)
Descendants(S) ==
    LET more == { p \in DOMAIN procs \ {LatePid} : procs[p].ppid \in S } \ S
    IN  IF more = {} THEN S ELSE Descendants(S \cup more)

\* the pids seizePid has to join
AttachSet == IF optTree THEN Descendants({optPid.val}) ELSE {optPid.val}

\* C7: attach-mode pid set: once collectPids returned nil on a process table
\* that did not change meanwhile, the pids written to the tasks file of every
\* subsystem are exactly the target pid, or with the tree option the target
\* pid and all its descendants.
C7_AttachPidSet ==
    (hist.collected /\ ~hist.forked /\ alive = DOMAIN procs \ {LatePid}) =>
        \A subsys \in DOMAIN params :
            { pid \in 0..MaxPid : <<TasksFile(subsysMountPoints[subsys]), pid>> \in joined }
                = AttachSet

\* C8: mandatory-parameter inheritance: a mandatory parameter is written with
\* the value of the same file in the parent directory, and a caller-supplied
\* parameter of a subsystem is written only after all its mandatory parameters.
C8_MandatoryInheritance ==
    \A i \in DOMAIN wlog :
        /\ wlog[i].by = "mandatory" =>
            /\ wlog[i].file \in DOMAIN parentFiles
            /\ wlog[i].val = parentFiles[wlog[i].file]
        /\ (wlog[i].by = "caller" /\ wlog[i].subsys \in DOMAIN mandatoryParameters) =>
            \A k \in DOMAIN mandatoryParameters[wlog[i].subsys] :
                \E j \in 1..(i - 1) :
                    /\ wlog[j].by = "mandatory"
                    /\ wlog[j].path = wlog[i].path
                    /\ wlog[j].file =
                        ParamFile(wlog[i].subsys, mandatoryParameters[wlog[i].subsys][k])

\* C8 witness: the caller's cpuset.cpus replaced the inherited value.
C8_Witness ==
    \E i \in DOMAIN wlog :
        /\ wlog[i].by = "caller"
        /\ wlog[i].file = "cpuset.cpus"
        /\ wlog[i].val # parentFiles["cpuset.cpus"]

\* C9: create/destroy round trip: after a successful setupHierarchy and the
\* teardown, with no task joined in between, no hierarchy directory exists and
\* the cgroup file system is as it was before setupHierarchy.
C9_RoundTrip ==
    (Exits /\ hist.setupOk /\ joined = {}) => cgfs = <<>>

\* C9 witness: a hierarchy over two subsystems was created, written and removed.
C9_Witness ==
    /\ Exits
    /\ hist.setupOk
    /\ joined = {}
    /\ Len(wlog) >= 2
    /\ Cardinality(DOMAIN params) = 2
    /\ cgfs = <<>>

----------------------------------------------------------------------------
(* Hierarchy Naming: makeHierarchyName, for invocations running on one     *)
(* host.  The clock advances, invocations start (each generates its name)  *)
(* and finish.                                                             *)

\* seconds the clock may advance
MaxTicks == 3
\* pids 1..MaxNamePid are available to invocations
MaxNamePid == 4

\* line 351 with the pid left out of the seed
SeedTimeOnly(now, pid) == now

\* line 351: seed := time.Now().Unix() + int64(os.Getpid())
Seed(now, pid) == now + pid

\* line 353: fmt.Fprintf(hash, "%d", seed): the decimal text of the seed
SeedText(seed) == ToString(seed)

\* lines 352-354: md5 of the text in lowercase hexadecimal; the digest is
\* taken to be injective on its input text
HexDigest(text) == "md5hex(" \o text \o ")"

makeHierarchyName(now, pid) == HexDigest(SeedText(Seed(now, pid)))

mainVars == <<inputVars, alive, cgfs, pc, err, todo, cur, mandIdx, ptodo, retCode,
              exitCode, childStarted, hpc, htodo, tasksFiles, child, cidx, waitStatus,
              plan, pidx, stderrName, wlog, joined, hist>>

InitName ==
    /\ mountSrc = [cgroups |-> <<>>, mounts |-> <<>>]
    /\ subsysMountPoints = <<>>
    /\ params = <<>>
    /\ optPid = NoPid
    /\ optTree = FALSE
    /\ cmdline = <<>>
    /\ args = <<>>
    /\ procs = <<>>
    /\ parentFiles = <<>>
    /\ InitControl
    /\ cgfs = <<>>
    /\ clock = Epoch
    /\ names = <<>>

\* a second passes
Tick ==
    /\ clock < Epoch + MaxTicks
    /\ clock' = clock + 1
    /\ UNCHANGED <<names, mainVars>>

\* an invocation with a free pid starts and generates its name (line 601)
Invoke ==
    /\ \E pid \in (1..MaxNamePid) \ DOMAIN names :
        names' = names @@ (pid :> [at |-> clock, name |-> makeHierarchyName(clock, pid)])
    /\ UNCHANGED <<clock, mainVars>>

\* an invocation ends; its pid becomes free
Finish ==
    /\ \E pid \in DOMAIN names :
        names' = [q \in DOMAIN names \ {pid} |-> names[q]]
    /\ UNCHANGED <<clock, mainVars>>

NextName ==
    \/ Tick
    \/ Invoke
    \/ Finish

SpecName == InitName /\ [][NextName]_vars

\* C10: two invocations started in the same wall-clock second under different
\* pids generate different names.
C10_SameSecondDistinctNames ==
    \A p1, p2 \in DOMAIN names :
        (p1 # p2 /\ names[p1].at = names[p2].at) => names[p1].name # names[p2].name

\* C10 witness: two invocations that started in the same second are running.
C10_Witness ==
    \E p1, p2 \in DOMAIN names : p1 # p2 /\ names[p1].at = names[p2].at

----------------------------------------------------------------------------
(* Teardown triggers and the signal hand-off                               *)

\* the deferred rollback of setupHierarchy called cleanupHierarchy (line 377)
RollbackCalled == pc = "rollback" \/ (pc = "exited" /\ err # "nil")

\* the deferred call of initialMain was made (line 606)
TeardownCalled == pc = "cleanup" \/ hist.teardown

\* the number of invocations of cleanupHierarchy made so far
CleanupCalls ==
    (IF RollbackCalled THEN 1 ELSE 0) + (IF TeardownCalled THEN 1 ELSE 0)
    + (IF hist.handled THEN 1 ELSE 0)

\* C12: over rollback, deferred teardown and signal handler together,
\* cleanupHierarchy is invoked exactly once in an execution that ran
\* setupHierarchy: never more than once, and once when the tool has exited.
C12_TeardownExactlyOnce ==
    /\ CleanupCalls <= 1
    /\ Exits => CleanupCalls = 1

\* a target has started: cmd.Start returned and execProgram has not returned
\* yet (lines 464-480), or waitNonChildPid is polling (line 550)
TargetStarted == (hist.launched /\ pc \in {"started", "wait"}) \/ pc = "poll"

\* C13: once a target has started, no step of the signal goroutine removes a
\* hierarchy directory, whatever the interleaving of signal delivery, the
\* check of childStarted, cmd.Start and childStarted = true.
C13_NoHandlerRemovalAfterStart ==
    [][ (TargetStarted /\ hpc = "cleanup" /\ htodo' # htodo)
            => DOMAIN cgfs' = DOMAIN cgfs ]_vars

\* C14 as stated: seizePid writes the pids first and marks childStarted only
\* afterwards, so childStarted is still false while pids are being written.
C14_WritesBeforeMark == pc = "collect" => ~childStarted

\* C14: seizePid marks childStarted first and writes the pids afterwards; the
\* name is emitted and polling starts only after all writes succeeded; a
\* signal whose check happens while pids are being written is therefore
\* treated as arriving after the target started: the goroutine does nothing.
C14_MarkBeforeWrites ==
    [][ /\ pc' \in {"collect", "poll"} => childStarted'
        /\ (hist'.attached /\ stderrName') => hist'.collected
        /\ pc' = "poll" => (hist'.collected /\ stderrName')
        /\ (pc = "collect" /\ hpc = "check" /\ hpc' # hpc) => hpc' = "done" ]_vars

\* C14 witness: a pid has been written, more writes are pending, and a signal
\* was checked after seizePid began and ignored.
C14_Witness ==
    /\ pc = "collect"
    /\ joined # {}
    /\ plan # <<>>
    /\ hpc = "done"
    /\ ~hist.handled

\* C15: cleanupHierarchy is a best-effort, idempotent destroy.  In whatever
\* order it visits params: the directory of every mounted subsystem is gone
\* afterwards unless it still has member tasks, also when the removal of
\* another directory failed; nothing else changes; a missing directory is
\* passed over; and a second invocation, in any order, changes nothing more.
\* The callers always get control back: rollback and teardown can go on.
C15_BestEffortIdempotent ==
    /\ \A o1, o2 \in Orders(DOMAIN params) :
         LET once == cleanupHierarchy(cgfs, o1)
         IN  /\ \A s \in DOMAIN params :
                  IsMounted(s) =>
                      LET p == HirPath(subsysMountPoints[s])
                      IN  p \in DOMAIN once <=> (p \in DOMAIN cgfs /\ cgfs[p].tasks # {})
             /\ DOMAIN once \subseteq DOMAIN cgfs
             /\ \A p \in DOMAIN once : once[p] = cgfs[p]
             /\ cleanupHierarchy(once, o2) = once
    /\ pc = "rollback" => ENABLED Rollback
    /\ pc = "cleanup" => ENABLED Teardown

\* C15 witness: a cleanupHierarchy is under way in which the removal for one
\* subsystem has failed, its directory still having member tasks, and the
\* directory of another subsystem, empty, is still to be visited.
C15_Witness ==
    /\ hpc = "cleanup"
    /\ \E s1, s2 \in DOMAIN params :
        /\ s1 \notin htodo /\ s2 \in htodo
        /\ IsMounted(s1) /\ IsMounted(s2)
        /\ HirPath(subsysMountPoints[s1]) \in DOMAIN cgfs
        /\ HirPath(subsysMountPoints[s2]) \in DOMAIN cgfs
        /\ cgfs[HirPath(subsysMountPoints[s1])].tasks # {}
        /\ cgfs[HirPath(subsysMountPoints[s2])].tasks = {}

----------------------------------------------------------------------------
(* Helper failure                                                          *)

\* C16 as stated: when the helper fails (a pid write to a tasks file, the
\* lookup of the target on the search path, or the image replacement), the
\* target is never executed, the helper exits with status 1, and the tool
\* reports 1 as its own exit code.
C16_HelperExitsOne ==
    hist.helperFailed =>
        /\ ~hist.targetRan
        /\ child = "exited" => waitStatus = StatusOfExit(1)
        /\ Exits => exitCode = 1

\* C16: when the helper fails, the target has not been and is never executed
\* and no tasks file is written afterwards; the helper is on its way out and
\* exits with status 1 unless a signal terminates it first; the tool's exit
\* code is not 0, and is 1 when the helper exited by itself.
C16_HelperFailure ==
    [][ (hist'.helperFailed =>
            /\ ~hist'.targetRan
            /\ child' \in {"failed", "exited"}
            /\ (child' = "exited" /\ Exited(waitStatus')) => waitStatus' = StatusOfExit(1)
            /\ Exits' => /\ exitCode' # 0
                         /\ Exited(waitStatus') => exitCode' = 1)
        /\ (hist.helperFailed => joined' = joined) ]_vars

\* C16 witness: the tool has exited after a helper whose second pid write
\* failed; the first write had succeeded.
C16_Witness ==
    /\ Exits
    /\ hist.helperFailed
    /\ cidx = 2
    /\ Len(tasksFiles) = 2
    /\ exitCode = 1

----------------------------------------------------------------------------
(* Mount resolution: initMountPointMap applied to bounded text sources,    *)
(* followed by the mount check setupHierarchy and getTasksFiles make.      *)

\* lines a mount table is composed of
MountLinePool ==
    { <<"cgroup", "/cg/cpuset", "cgroup", <<"rw", "cpuset">>, "0", "0">>,
      <<"cgroup", "/cg/cpu", "cgroup", <<"rw", "cpu">>, "0", "0">>,
      <<"cgroup", "/cg/cpu,blkio", "cgroup", <<"rw", "cpu", "blkio">>, "0", "0">>,
      <<"tmpfs", "/cg", "tmpfs", <<"rw", "cpu">>, "0", "0">>,
      <<"cgroup2", "/cg2", "cgroup2", <<"rw", "blkio">>, "0", "0">>,
      <<"none", "/short", "cgroup">>,
      <<>> }

\* lines of a mount table
MaxMountLines == 3

MountTables ==
    UNION { [1..n -> MountLinePool] : n \in 0..MaxMountLines }

\* subsystem listings: complete, without blkio, header only, empty file
CgroupsListings == { CgroupsAll, CgroupsNoBlkio, <<CgroupsHeader, <<>>>>, << <<>> >> }

\* names looked up in the map
LookupNames == { "cpuset", "cpu", "blkio", "memory", "rw", "#subsys_name" }

InitMount ==
    /\ mountSrc \in [cgroups : CgroupsListings, mounts : MountTables]
    /\ subsysMountPoints = <<>>
    /\ params = <<>>
    /\ optPid = NoPid
    /\ optTree = FALSE
    /\ cmdline = <<>>
    /\ args = <<>>
    /\ procs = <<>>
    /\ parentFiles = <<>>
    /\ InitControl
    /\ cgfs = <<>>
    /\ clock = Epoch
    /\ names = <<>>

mountRest == <<params, optPid, optTree, cmdline, args, parentFiles, procs, alive, cgfs, todo,
               mandIdx, ptodo, retCode, exitCode, childStarted, hpc, htodo, tasksFiles,
               child, cidx, waitStatus, plan, pidx, stderrName, wlog, joined, hist,
               clock, names>>

\* line 596: initMountPointMap fills the global map
Resolve ==
    /\ pc = "start"
    /\ subsysMountPoints' = initMountPointMap(mountSrc.cgroups, mountSrc.mounts)
    /\ pc' = "resolved"
    /\ UNCHANGED <<mountSrc, cur, err, mountRest>>

\* lines 382-385 and 437-440: the lookup of one subsystem and its verdict
Lookup ==
    /\ pc = "resolved"
    /\ \E subsys \in LookupNames :
        /\ cur' = subsys
        /\ err' = IF IsMounted(subsys) THEN "nil" ELSE "not mounted"
    /\ pc' = "looked"
    /\ UNCHANGED <<mountSrc, subsysMountPoints, mountRest>>

NextMount ==
    \/ Resolve
    \/ Lookup

SpecMount == InitMount /\ [][NextMount]_vars

\* s is the first field of a line of the listing other than the first line
Listed(s) ==
    \E i \in 2..Len(mountSrc.cgroups) :
        Len(mountSrc.cgroups[i]) >= 1 /\ mountSrc.cgroups[i][1] = s

\* the mount entries of type "cgroup" that name s among their options
CgroupEntries(s) ==
    { i \in 1..Len(mountSrc.mounts) :
        /\ Len(mountSrc.mounts[i]) >= 4
        /\ mountSrc.mounts[i][3] = "cgroup"
        /\ \E k \in 1..Len(mountSrc.mounts[i][4]) : mountSrc.mounts[i][4][k] = s }

LastOf(S) == CHOOSE i \in S : \A j \in S : j <= i

\* C17: after initMountPointMap, a name is in the map exactly when the listing
\* has it as first field of a line after the header; its path is non-empty
\* exactly when, in addition, a mount entry of type "cgroup" names it among
\* its options, and is then the mount point of the last such entry; otherwise
\* the path is empty and the lookup rejects the subsystem as not mounted.
C17_MountResolution ==
    pc \in {"resolved", "looked"} =>
        \A s \in LookupNames :
            /\ s \in DOMAIN subsysMountPoints <=> Listed(s)
            /\ IsMounted(s) <=> (Listed(s) /\ CgroupEntries(s) # {})
            /\ IsMounted(s) =>
                   subsysMountPoints[s] = mountSrc.mounts[LastOf(CgroupEntries(s))][2]
            /\ (Listed(s) /\ CgroupEntries(s) = {}) => subsysMountPoints[s] = ""
            /\ (pc = "looked" /\ cur = s) => (err = "not mounted" <=> ~IsMounted(s))

\* C17 witness: a subsystem named by two cgroup entries with different mount
\* points, and after them by an entry of another type, was looked up and
\* found mounted.
C17_Witness ==
    /\ pc = "looked"
    /\ err = "nil"
    /\ Cardinality({ mountSrc.mounts[i][2] : i \in CgroupEntries(cur) }) = 2
    /\ \E i \in 1..Len(mountSrc.mounts) :
        /\ i > LastOf(CgroupEntries(cur))
        /\ Len(mountSrc.mounts[i]) >= 4
        /\ mountSrc.mounts[i][3] # "cgroup"
        /\ \E k \in 1..Len(mountSrc.mounts[i][4]) : mountSrc.mounts[i][4][k] = cur

----------------------------------------------------------------------------
(* An invocation whose generated name is already in use: the directory     *)
(* <mountpoint>/<name> of the cpuset hierarchy exists before setup, made   *)
(* by another invocation that generated the same name.                     *)

InitShared ==
    /\ mountSrc = [cgroups |-> CgroupsAll, mounts |-> MountsSeparate]
    /\ subsysMountPoints = initMountPointMap(CgroupsAll, MountsSeparate)
    /\ \E inv \in Invocations :
        /\ optPid = inv.optPid
        /\ optTree = inv.optTree
        /\ cmdline \in CommandLines(inv)
        /\ procs = inv.procs
    /\ parseParams(cmdline).err = "nil"
    /\ params = parseParams(cmdline).params
    /\ args = parseParams(cmdline).args
    /\ parentFiles \in ParentFileSets
    /\ InitControl
    /\ cgfs = (HirPath("/cg/cpuset") :> NoDir)
    /\ clock = Epoch
    /\ names = <<>>

SpecShared == InitShared /\ [][Next]_vars

\* C18: a step of this invocation removes a directory <mountpoint>/<name>
\* only if the invocation's own Mkdir of that path succeeded earlier; a
\* directory that existed before (Mkdir failed with EEXIST) is not removed
\* by the rollback.
C18_RemovesOnlyOwn ==
    [][ \A p \in DOMAIN cgfs : p \notin DOMAIN cgfs' => p \in hist.created ]_vars

\* C19: whenever setupHierarchy returns nil, the directory <mountpoint>/<name>
\* exists at that moment for every subsystem in params, wherever a signal was
\* delivered after the handler was installed.
C19_SetupReturnsComplete ==
    [][ (pc = "setup_loop" /\ pc' = "dispatch") =>
            \A s \in DOMAIN params : HirPath(subsysMountPoints[s]) \in DOMAIN cgfs' ]_vars

----------------------------------------------------------------------------
(* Launch mode and the target                                              *)

\* an argument of the form subsystem.parameter=value
IsParamToken(arg) ==
    Index(arg, "=") # 0 /\ Index(SubSeq(arg, 1, Index(arg, "=") - 1), ".") # 0

\* the positional arguments hold no target program
NoTarget == \A i \in 1..Len(cmdline) : IsParamToken(cmdline[i])

\* the texts of the parameter tokens that lead the positional arguments
LeadingParamTokens ==
    { Text(cmdline[i]) :
        i \in { j \in 1..Len(cmdline) : \A k \in 1..j : IsParamToken(cmdline[k]) } }

\* C20: in launch mode without a target (no positional arguments, or only
\* subsystem.parameter=value tokens) initialMain never starts the helper
\* child and the tool exits with 1 after 'no target program specified';
\* with a target, the argv handed to the helper after "--" holds none of the
\* leading parameter tokens.
C20_NoTargetNoLaunch ==
    /\ (~optPid.set /\ NoTarget) =>
            /\ ~hist.launched
            /\ pc # "exec"
            /\ child = "none"
            /\ Exits => exitCode = 1
    /\ (~optPid.set /\ ~NoTarget /\ hist.launched) =>
            \A i \in 1..Len(args) : args[i] \notin LeadingParamTokens

\* C11: any two invocations running at the same time on one host (different
\* pids, started in the same or in different seconds) hash different seed
\* texts and so have different names.
C11_ConcurrentDistinctNames ==
    \A p1, p2 \in DOMAIN names :
        p1 # p2 =>
            /\ SeedText(Seed(names[p1].at, p1)) # SeedText(Seed(names[p2].at, p2))
            /\ names[p1].name # names[p2].name

====
